---- MODULE Spec2Model ----
(***************************************************************************)
(* Model of the course-schedule scraper (boun_course_info).                *)
(*                                                                         *)
(* Text is a sequence of one-character strings, so that the character-wise *)
(* decoders of the source (regular expressions, str.isdigit, str.replace,  *)
(* str.upper, re.split) are computed and not assumed.  Four characters     *)
(* that are not ASCII are written by name: "sup2" is SUPERSCRIPT TWO,      *)
(* "Yacute"/"yacute" are the Latin-1 glyphs the room fixer replaces and    *)
(* "Idot" is LATIN CAPITAL LETTER I WITH DOT ABOVE.                        *)
(***************************************************************************)
EXTENDS Integers, Sequences, FiniteSets, TLC

\* ---------------------------------------------------------------- bounds
MaxRows == 3
MaxText == 3
MaxPages == 3
MaxCells == 4

\* ------------------------------------------------------- Python text model
DecimalDigits == {"0", "1", "2", "3", "4", "5", "6", "7", "8", "9"}

\* str.isdigit(): decimal digits and the other characters of digit type.
isdigit(c) == c \in DecimalDigits \cup {"sup2"}

\* int(c) raises ValueError unless c is a decimal digit.
int_raises(c) == c \notin DecimalDigits

int_value(c) ==
    CASE c = "0" -> 0 [] c = "1" -> 1 [] c = "2" -> 2 [] c = "3" -> 3
      [] c = "4" -> 4 [] c = "5" -> 5 [] c = "6" -> 6 [] c = "7" -> 7
      [] c = "8" -> 8 [] c = "9" -> 9

\* str(n) for a natural number n.
RECURSIVE str_of_int(_)
str_of_int(n) ==
    LET d == CHOOSE c \in DecimalDigits : int_value(c) = n % 10
    IN  IF n < 10 THEN <<d>> ELSE str_of_int(n \div 10) \o <<d>>

Whitespace == {" "}

\* str.strip(): leading and trailing whitespace removed.
RECURSIVE lstrip(_)
lstrip(t) == IF t # <<>> /\ Head(t) \in Whitespace THEN lstrip(Tail(t)) ELSE t

RECURSIVE rstrip(_)
rstrip(t) ==
    IF t # <<>> /\ t[Len(t)] \in Whitespace
    THEN rstrip(SubSeq(t, 1, Len(t) - 1))
    ELSE t

strip(t) == rstrip(lstrip(t))

\* str.isdigit() of a whole string: non-empty and every character a digit.
str_isdigit(t) == t # <<>> /\ \A i \in 1..Len(t) : isdigit(t[i])

\* int(t) for a string of decimal digits.
RECURSIVE int_of_str(_)
int_of_str(t) ==
    IF t = <<>> THEN 0
    ELSE 10 * int_of_str(SubSeq(t, 1, Len(t) - 1)) + int_value(t[Len(t)])

upper_char(c) ==
    CASE c = "a" -> "A" [] c = "b" -> "B" [] c = "c" -> "C" [] OTHER -> c

\* Mutant of normalize_course_code: upper-cased, the spaces kept.
normalize_keep_spaces(t) == [i \in 1..Len(t) |-> upper_char(t[i])]

\* code.replace(' ', '').upper()
RECURSIVE normalize_course_code(_)
normalize_course_code(t) ==
    IF t = <<>> THEN <<>>
    ELSE IF Head(t) = " " THEN normalize_course_code(Tail(t))
    ELSE <<upper_char(Head(t))>> \o normalize_course_code(Tail(t))

\* ---------------------------------------------------------- Python dict
\* A dict is the sequence of its items in insertion order.
DictKeys(d) == {d[i].key : i \in 1..Len(d)}

DictHas(d, k) == \E i \in 1..Len(d) : d[i].key = k

DictGet(d, k) == d[CHOOSE i \in 1..Len(d) : d[i].key = k].val

\* Mutant of DictSet: a new key goes first.
DictSet_first(d, k, v) ==
    IF \E i \in 1..Len(d) : d[i].key = k
    THEN [i \in 1..Len(d) |-> IF d[i].key = k THEN [key |-> k, val |-> v] ELSE d[i]]
    ELSE <<[key |-> k, val |-> v]>> \o d

\* d[k] = v: an existing key keeps its position, a new key goes last.
DictSet(d, k, v) ==
    IF DictHas(d, k)
    THEN [i \in 1..Len(d) |-> IF d[i].key = k THEN [key |-> k, val |-> v] ELSE d[i]]
    ELSE Append(d, [key |-> k, val |-> v])

\* Mutant of DictUpdate: a key that d has keeps its value.
RECURSIVE DictUpdate_keeps(_, _)
DictUpdate_keeps(d, e) ==
    IF e = <<>> THEN d
    ELSE IF \E i \in 1..Len(d) : d[i].key = Head(e).key THEN DictUpdate_keeps(d, Tail(e))
    ELSE DictUpdate_keeps(Append(d, Head(e)), Tail(e))

\* d.update(e)
RECURSIVE DictUpdate(_, _)
DictUpdate(d, e) ==
    IF e = <<>> THEN d
    ELSE DictUpdate(DictSet(d, Head(e).key, Head(e).val), Tail(e))

\* ------------------------------------------------------------ cell decoding
TwoLetterDays == {<<"T", "h">>, <<"S", "t">>, <<"S", "u">>}
OneLetterDays == {"M", "T", "W", "F"}

\* Mutant of findall_days: the one-letter class is tried before the two-letter
\* tokens.
RECURSIVE findall_days_short_first(_)
findall_days_short_first(t) ==
    IF t = <<>> THEN <<>>
    ELSE IF Head(t) \in {"M", "T", "W", "F"}
    THEN <<(<<Head(t)>>)>> \o findall_days_short_first(Tail(t))
    ELSE IF Len(t) >= 2 /\ SubSeq(t, 1, 2) \in {<<"T", "h">>, <<"S", "t">>, <<"S", "u">>}
    THEN <<SubSeq(t, 1, 2)>> \o findall_days_short_first(SubSeq(t, 3, Len(t)))
    ELSE findall_days_short_first(Tail(t))

\* re.findall(r'Th|St|Su|[MTWF]', text): leftmost match at each position, the
\* alternatives tried in the order written, the scan resuming after the match.
RECURSIVE findall_days(_)
findall_days(t) ==
    IF t = <<>> THEN <<>>
    ELSE IF Len(t) >= 2 /\ SubSeq(t, 1, 2) \in TwoLetterDays
    THEN <<SubSeq(t, 1, 2)>> \o findall_days(SubSeq(t, 3, Len(t)))
    ELSE IF Head(t) \in OneLetterDays
    THEN <<(<<Head(t)>>)>> \o findall_days(Tail(t))
    ELSE findall_days(Tail(t))

\* days = re.findall(...) if days_text else []
decode_days(days_text) == IF days_text # <<>> THEN findall_days(days_text) ELSE <<>>

\* The inline hours loop: char.isdigit(), int(char), 1 <= slot_num <= 8.
\* int(char) raises ValueError on a digit character that is not decimal.
RECURSIVE hours_loop(_)
hours_loop(t) ==
    IF t = <<>> THEN <<>>
    ELSE IF isdigit(Head(t)) /\ ~int_raises(Head(t))
            /\ 1 <= int_value(Head(t)) /\ int_value(Head(t)) <= 8
    THEN <<int_value(Head(t))>> \o hours_loop(Tail(t))
    ELSE hours_loop(Tail(t))

hours_raises(t) == \E i \in 1..Len(t) : isdigit(t[i]) /\ int_raises(t[i])

decode_hours(hours_text) ==
    IF hours_raises(hours_text)
    THEN [raised |-> TRUE, val |-> <<>>]
    ELSE [raised |-> FALSE, val |-> hours_loop(hours_text)]

\* fix_room_text: the two mis-decoded Turkish glyphs are replaced.
fix_room_text(t) ==
    [i \in 1..Len(t) |->
        IF t[i] = "Yacute" THEN "Idot" ELSE IF t[i] = "yacute" THEN "i" ELSE t[i]]

RoomSeparators == {",", "|"}

\* re.split(r'[,|]', text): the pieces between the separators, empty ones kept.
RECURSIVE re_split(_)
re_split(t) ==
    IF \E i \in 1..Len(t) : t[i] \in RoomSeparators
    THEN LET k == CHOOSE i \in 1..Len(t) :
                    /\ t[i] \in RoomSeparators
                    /\ \A j \in 1..(i - 1) : t[j] \notin RoomSeparators
         IN  <<SubSeq(t, 1, k - 1)>> \o re_split(SubSeq(t, k + 1, Len(t)))
    ELSE <<t>>

\* [f(x) for x in xs if keep(x)] for the two room comprehensions.
RECURSIVE span_filter(_)
span_filter(xs) ==
    IF xs = <<>> THEN <<>>
    ELSE IF Head(xs) # <<>> /\ Head(xs) # <<"|">>
    THEN <<Head(xs)>> \o span_filter(Tail(xs))
    ELSE span_filter(Tail(xs))

RECURSIVE text_filter(_)
text_filter(xs) ==
    IF xs = <<>> THEN <<>>
    ELSE IF strip(Head(xs)) # <<>>
    THEN <<fix_room_text(strip(Head(xs)))>> \o text_filter(Tail(xs))
    ELSE text_filter(Tail(xs))

\* Rooms of a cell: the span texts when the cell has spans, else the split text.
decode_rooms(rooms_cell) ==
    LET span_rooms == [i \in 1..Len(rooms_cell.spans) |-> fix_room_text(rooms_cell.spans[i])]
    IN  IF span_rooms # <<>> THEN span_filter(span_rooms)
        ELSE IF rooms_cell.text # <<>> THEN text_filter(re_split(rooms_cell.text))
        ELSE <<>>

\* credits = int(text) if text.isdigit() else 0; int() raises on "sup2".
decode_credits(t) ==
    IF ~str_isdigit(t) THEN [raised |-> FALSE, val |-> 0]
    ELSE IF \E i \in 1..Len(t) : int_raises(t[i]) THEN [raised |-> TRUE, val |-> 0]
    ELSE [raised |-> FALSE, val |-> int_of_str(t)]

\* float(text.replace(',', '.')) if text else 0.0, ValueError giving 0.0.
\* A float is held as its number of tenths; the cell texts of the model have
\* at most one digit after the decimal point.
decode_ects(t) ==
    LET r == [i \in 1..Len(t) |-> IF t[i] = "," THEN "." ELSE t[i]]
        dots == {i \in 1..Len(r) : r[i] = "."}
        valid == /\ \A i \in 1..Len(r) : r[i] \in DecimalDigits \cup {"."}
                 /\ Cardinality(dots) <= 1
                 /\ \E i \in 1..Len(r) : r[i] \in DecimalDigits
        p == IF dots = {} THEN Len(r) + 1 ELSE CHOOSE i \in dots : TRUE
        whole == int_of_str(SubSeq(r, 1, p - 1))
        frac == IF p + 1 <= Len(r) THEN int_value(r[p + 1]) ELSE 0
    IN  IF t = <<>> \/ ~valid THEN 0 ELSE 10 * whole + frac

\* re.match(r'^(LAB|P\.S\.|PS|REC)\s*\d*$', name): the alternatives in the
\* order written; \d is a decimal digit.
SessionTokens == << <<"L", "A", "B">>, <<"P", ".", "S", ".">>, <<"P", "S">>, <<"R", "E", "C">> >>

IsPrefix(p, t) == Len(p) <= Len(t) /\ SubSeq(t, 1, Len(p)) = p

SpacesThenDigits(t) ==
    \E k \in 0..Len(t) :
        /\ \A i \in 1..k : t[i] \in Whitespace
        /\ \A i \in (k + 1)..Len(t) : t[i] \in DecimalDigits

TokenMatches(p, name) ==
    IsPrefix(p, name) /\ SpacesThenDigits(SubSeq(name, Len(p) + 1, Len(name)))

\* Mutant of session_match: no name is taken for a session name.
session_match_never(name) == FALSE

session_match(name) == \E i \in 1..Len(SessionTokens) : TokenMatches(SessionTokens[i], name)

\* session_match.group(1)
session_group(name) ==
    SessionTokens[CHOOSE i \in 1..Len(SessionTokens) :
                    /\ TokenMatches(SessionTokens[i], name)
                    /\ \A j \in 1..(i - 1) : ~TokenMatches(SessionTokens[j], name)]

\* "PS" becomes "P.S.", "REC" becomes "LAB".
session_type_of(group) ==
    IF group = <<"P", "S">> THEN <<"P", ".", "S", ".">>
    ELSE IF group = <<"R", "E", "C">> THEN <<"L", "A", "B">>
    ELSE group

\* ------------------------------------------------------------ the document
\* A table row is [class, cells]: class is the list of class tokens of the tr
\* (empty when it has no class attribute), cells its td elements in order.  A
\* cell is [text, font, spans]: its stripped text, the text of its font
\* element (<<>> when it has none, else a one-element sequence) and the texts
\* of its span elements.

\* Python values of the kinds the class test compares.
PyStr(s) == [type |-> "str", s |-> s]
PyList(xs) == [type |-> "list", items |-> xs]
PyNone == [type |-> "NoneType"]

\* a == b: values of different types are unequal.
py_eq(a, b) == a.type = b.type /\ a = b

\* v in L for a list L
py_in(v, L) == \E i \in 1..Len(L) : py_eq(v, L[i])

\* ['schtd', 'schtd2']
DataRowClasses == <<PyStr("schtd"), PyStr("schtd2")>>

\* tag.get('class'): BeautifulSoup's HTML builders hold class as a list of
\* tokens; None when the attribute is absent.
get_class(row) == IF row.class = <<>> THEN PyNone ELSE PyList(row.class)

\* find_all('tr', class_=lambda x: x in [...]): the function is applied to each
\* class token of the row.
is_data_row(row) == \E i \in 1..Len(row.class) : py_in(PyStr(row.class[i]), DataRowClasses)

\* find('tr', class_='schtitle')
is_header_row(row) == \E i \in 1..Len(row.class) : row.class[i] = "schtitle"

has_header_row(rows) == \E i \in 1..Len(rows) : is_header_row(rows[i])

header_row_of(rows) ==
    rows[CHOOSE i \in 1..Len(rows) :
            is_header_row(rows[i]) /\ \A j \in 1..(i - 1) : ~is_header_row(rows[j])]

\* headers = [th.get_text(strip=True) for th in header_row.find_all('td')]
headers_of(rows) ==
    LET hr == header_row_of(rows) IN [i \in 1..Len(hr.cells) |-> hr.cells[i].text]

\* header_indices: a label maps to its last (zero-based) position.
has_index(headers, field) == \E i \in 1..Len(headers) : headers[i] = field

index_of(headers, field) ==
    (CHOOSE i \in 1..Len(headers) :
        headers[i] = field /\ \A j \in (i + 1)..Len(headers) : headers[j] # field) - 1

\* header_indices.get(field, 0)
index_or_zero(headers, field) == IF has_index(headers, field) THEN index_of(headers, field) ELSE 0

safe_text_for_row(cells, field, headers) ==
    IF has_index(headers, field) /\ index_of(headers, field) < Len(cells)
    THEN cells[index_of(headers, field) + 1].text
    ELSE <<>>

\* The rows the for loop visits: positions of the data rows, in document order.
RECURSIVE data_row_positions(_, _)
data_row_positions(rows, i) ==
    IF i > Len(rows) THEN <<>>
    ELSE IF is_data_row(rows[i]) THEN <<i>> \o data_row_positions(rows, i + 1)
    ELSE data_row_positions(rows, i + 1)

\* -------------------------------------------------------- reconciliation
Max3(a, b, c) ==
    IF a >= b /\ a >= c THEN a ELSE IF b >= c THEN b ELSE c

\* Mutants of extend_last: no padding at all; padding with the first element.
extend_nothing(s, max_len) == s

extend_first(s, max_len) ==
    IF s # <<>> THEN s \o [i \in 1..(max_len - Len(s)) |-> s[1]] ELSE <<>>

\* seq.extend([last] * (max_len - len(seq))) for a non-empty seq
extend_last(s, max_len) ==
    IF s # <<>> THEN s \o [i \in 1..(max_len - Len(s)) |-> s[Len(s)]] ELSE <<>>

\* "Ensure arrays are of equal length if any of them have data"
reconcile(obj) ==
    IF obj.days # <<>> \/ obj.hours # <<>> \/ obj.rooms # <<>>
    THEN LET max_len == Max3(Len(obj.days), Len(obj.hours), Len(obj.rooms))
         IN  [obj EXCEPT !.days = extend_last(obj.days, max_len),
                         !.hours = extend_last(obj.hours, max_len),
                         !.rooms = extend_last(obj.rooms, max_len)]
    ELSE obj

\* ------------------------------------------------- extract_course_data
\* The outcome of a piece of the loop: whether an exception left it, and the
\* mapping as it then stands.
Ok(c) == [raised |-> FALSE, courses |-> c]
Raise(c) == [raised |-> TRUE, courses |-> c]

\* The session record of one continuation row.
session_obj_of(next_cells, headers, parent, session_type, session_counter) ==
    LET suffix == <<" ">> \o session_type \o <<" ">> \o str_of_int(session_counter)
    IN  reconcile(
          [code |-> parent.code \o suffix,
           credits |-> 0,
           ects |-> 0,
           instructor |-> parent.instructor,
           name |-> parent.name \o suffix,
           days |-> findall_days(safe_text_for_row(next_cells, "Days", headers)),
           hours |-> decode_hours(safe_text_for_row(next_cells, "Hours", headers)).val,
           rooms |-> decode_rooms(next_cells[index_or_zero(headers, "Rooms") + 1])])

\* Mutant of session_walk: the lookahead passes over the rows that fail a test
\* and gives a session record to every continuation row after the primary row.
RECURSIVE session_walk_through(_, _, _, _, _, _)
session_walk_through(courses, rows, j, session_counter, parent, course_code_key) ==
    IF j > Len(rows) THEN Ok(courses)
    ELSE IF \/ ~is_data_row(rows[j])
            \/ Len(rows[j].cells) < Len(headers_of(rows))
            \/ ~session_match(strip(safe_text_for_row(rows[j].cells, "Name", headers_of(rows))))
    THEN session_walk_through(courses, rows, j + 1, session_counter, parent, course_code_key)
    ELSE
      LET session_type ==
              session_type_of(session_group(
                  strip(safe_text_for_row(rows[j].cells, "Name", headers_of(rows)))))
          session_code_key ==
              course_code_key \o <<" ">> \o session_type \o <<" ">> \o str_of_int(session_counter)
      IN  session_walk_through(
              DictSet(courses, session_code_key,
                      session_obj_of(rows[j].cells, headers_of(rows), parent, session_type,
                                     session_counter)),
              rows, j + 1, session_counter + 1, parent, course_code_key)

\* Mutant of session_walk: the days of the continuation rows are appended to
\* the record stored under the key of the primary row.
RECURSIVE session_walk_merged(_, _, _, _, _, _)
session_walk_merged(courses, rows, j, session_counter, parent, course_code_key) ==
    IF j > Len(rows) \/ ~is_data_row(rows[j]) THEN Ok(courses)
    ELSE IF Len(rows[j].cells) < Len(headers_of(rows)) THEN Ok(courses)
    ELSE IF ~session_match(strip(safe_text_for_row(rows[j].cells, "Name", headers_of(rows))))
    THEN Ok(courses)
    ELSE
      LET stored == DictGet(courses, course_code_key)
          session_days == findall_days(safe_text_for_row(rows[j].cells, "Days", headers_of(rows)))
      IN  session_walk_merged(
              DictSet(courses, course_code_key, [stored EXCEPT !.days = @ \o session_days]),
              rows, j + 1, session_counter, parent, course_code_key)

\* The lookahead over the siblings that follow a primary row: rows[j] is
\* next_row, the walk ends at the first row that fails a test.
RECURSIVE session_walk(_, _, _, _, _, _)
session_walk(courses, rows, j, session_counter, parent, course_code_key) ==
    IF j > Len(rows) THEN Ok(courses)
    ELSE IF ~py_in(get_class(rows[j]), DataRowClasses) THEN Ok(courses)
    ELSE
      LET headers == headers_of(rows)
          next_cells == rows[j].cells
          next_name == strip(safe_text_for_row(next_cells, "Name", headers))
      IN  IF Len(next_cells) < Len(headers) THEN Ok(courses)
          ELSE IF ~session_match(next_name) THEN Ok(courses)
          ELSE IF hours_raises(safe_text_for_row(next_cells, "Hours", headers))
          THEN Raise(courses)
          ELSE
            LET session_type == session_type_of(session_group(next_name))
                session_code_key ==
                    course_code_key \o <<" ">> \o session_type \o <<" ">>
                        \o str_of_int(session_counter)
                session_obj ==
                    session_obj_of(next_cells, headers, parent, session_type, session_counter)
            IN  session_walk(DictSet(courses, session_code_key, session_obj),
                             rows, j + 1, session_counter + 1, parent, course_code_key)

\* The course record of a primary row, reconciled.
course_obj_of(cells, headers) ==
    reconcile(
      [code |-> cells[index_or_zero(headers, "Code.Sec") + 1].font[1],
       credits |-> decode_credits(safe_text_for_row(cells, "Cr.", headers)).val,
       ects |-> decode_ects(safe_text_for_row(cells, "Ects", headers)),
       instructor |-> safe_text_for_row(cells, "Instr.", headers),
       name |-> safe_text_for_row(cells, "Name", headers),
       days |-> decode_days(safe_text_for_row(cells, "Days", headers)),
       hours |-> decode_hours(safe_text_for_row(cells, "Hours", headers)).val,
       rooms |-> decode_rooms(cells[index_or_zero(headers, "Rooms") + 1])])

\* Mutant of is_unscheduled: all() for any(), one empty sequence is enough.
is_unscheduled_all(obj) == obj.days = <<>> \/ obj.hours = <<>> \/ obj.rooms = <<>>

\* not any([days, hours, rooms])
is_unscheduled(obj) == obj.days = <<>> /\ obj.hours = <<>> /\ obj.rooms = <<>>

\* Mutants of add_main_course: the later record overwrites the earlier one; the
\* earlier one is removed and the later one inserted last.
add_main_course_overwrite(courses, course_code_key, course_obj) ==
    DictSet(courses, course_code_key, course_obj)

add_main_course_reinsert(courses, course_code_key, course_obj) ==
    Append(SelectSeq(courses, LAMBDA e : e.key # course_code_key),
           [key |-> course_code_key, val |-> course_obj])

\* if course_code_key not in courses: courses[course_code_key] = course_obj
add_main_course(courses, course_code_key, course_obj) ==
    IF ~DictHas(courses, course_code_key)
    THEN DictSet(courses, course_code_key, course_obj)
    ELSE courses

\* days, hours and rooms of a row as decoded, before reconciliation.
decoded_of(cells, headers) ==
    [days |-> decode_days(safe_text_for_row(cells, "Days", headers)),
     hours |-> decode_hours(safe_text_for_row(cells, "Hours", headers)).val,
     rooms |-> decode_rooms(cells[index_or_zero(headers, "Rooms") + 1])]

\* Mutant of skip_incomplete: the incomplete row ends the call with an exception.
skip_incomplete_raising(courses) == Raise(courses)

\* Lines 149-150: continue, the mapping as it is.
skip_incomplete(courses) == Ok(courses)

\* One iteration of the for loop, on rows[r]: the outcome, with the iteration's
\* decoded triple and course_obj (each <<>> when the iteration ends before
\* binding it, else a one-element sequence).
loop_body(courses, rows, r, unscheduled_included) ==
    LET headers == headers_of(rows)
        cells == rows[r].cells
        Leave(out, d, o) == [out |-> out, decoded |-> d, course_obj |-> o]
    IN  IF Len(cells) < Len(headers) THEN Leave(skip_incomplete(courses), <<>>, <<>>)
        ELSE IF cells[index_or_zero(headers, "Code.Sec") + 1].font = <<>>
        THEN Leave(Ok(courses), <<>>, <<>>)
        ELSE IF decode_credits(safe_text_for_row(cells, "Cr.", headers)).raised
        THEN Leave(Raise(courses), <<>>, <<>>)
        ELSE IF decode_hours(safe_text_for_row(cells, "Hours", headers)).raised
        THEN Leave(Raise(courses), <<>>, <<>>)
        ELSE
          LET decoded == decoded_of(cells, headers)
              course_obj == course_obj_of(cells, headers)
              course_code_key == normalize_course_code(course_obj.code)
          IN  IF session_match(strip(safe_text_for_row(cells, "Name", headers)))
              THEN Leave(Ok(courses), <<decoded>>, <<>>)
              ELSE IF ~unscheduled_included /\ is_unscheduled(course_obj)
              THEN Leave(Ok(courses), <<decoded>>, <<course_obj>>)
              ELSE Leave(session_walk(add_main_course(courses, course_code_key, course_obj),
                                      rows, r + 1, 1, course_obj, course_code_key),
                         <<decoded>>, <<course_obj>>)

\* The whole call: the loop over the data rows, from the k-th on.
RECURSIVE for_rows(_, _, _, _)
for_rows(courses, rows, k, unscheduled_included) ==
    IF k > Len(data_row_positions(rows, 1)) THEN Ok(courses)
    ELSE LET res == loop_body(courses, rows, data_row_positions(rows, 1)[k],
                              unscheduled_included).out
         IN  IF res.raised THEN res
             ELSE for_rows(res.courses, rows, k + 1, unscheduled_included)

\* Mutant of extract_course_data: the missing table raises as well.
extract_course_data_table_raises(page_soup, unscheduled_included) ==
    IF ~page_soup.table \/ ~has_header_row(page_soup.rows) THEN Raise(<<>>)
    ELSE for_rows(<<>>, page_soup.rows, 1, unscheduled_included)

\* find() of the table gives None: the empty mapping is returned; find() of
\* the header row gives None: header_row.find_all raises AttributeError.
extract_course_data(page_soup, unscheduled_included) ==
    IF ~page_soup.table THEN Ok(<<>>)
    ELSE IF ~has_header_row(page_soup.rows) THEN Raise(<<>>)
    ELSE for_rows(<<>>, page_soup.rows, 1, unscheduled_included)

\* ------------------------------------------------------- parse_time_slots
\* The legend is [present, rows]; a legend row is [colspan, cells], colspan
\* telling whether it has a cell with a colspan attribute, cells being its
\* td.bodygray cells; a legend cell is [bold, text].

RECURSIVE skip_spaces(_, _)
skip_spaces(t, i) ==
    IF i <= Len(t) /\ t[i] \in Whitespace THEN skip_spaces(t, i + 1) ELSE i

RECURSIVE skip_digits(_, _)
skip_digits(t, i) ==
    IF i <= Len(t) /\ t[i] \in DecimalDigits THEN skip_digits(t, i + 1) ELSE i

\* re.search(r'Slot\s*(\d+)', text) matches at position i.
slot_at(t, i) ==
    /\ i + 3 <= Len(t)
    /\ SubSeq(t, i, i + 3) = <<"S", "l", "o", "t">>
    /\ skip_digits(t, skip_spaces(t, i + 4)) > skip_spaces(t, i + 4)

slot_found(t) == \E i \in 1..Len(t) : slot_at(t, i)

\* int(slot_match.group(1)) of the leftmost match
slot_number_of(t) ==
    LET i == CHOOSE i \in 1..Len(t) : slot_at(t, i) /\ \A j \in 1..(i - 1) : ~slot_at(t, j)
        a == skip_spaces(t, i + 4)
    IN  int_of_str(SubSeq(t, a, skip_digits(t, a) - 1))

\* re.search(r':\s*(\d{2}):(\d{2})\s*-', text) matches at position i.
time_at(t, i) ==
    LET a == skip_spaces(t, i + 1)
    IN  /\ t[i] = ":"
        /\ a + 4 <= Len(t)
        /\ t[a] \in DecimalDigits /\ t[a + 1] \in DecimalDigits
        /\ t[a + 2] = ":"
        /\ t[a + 3] \in DecimalDigits /\ t[a + 4] \in DecimalDigits
        /\ skip_spaces(t, a + 5) <= Len(t)
        /\ t[skip_spaces(t, a + 5)] = "-"

time_found(t) == \E i \in 1..Len(t) : time_at(t, i)

\* int(time_match.group(1)) of the leftmost match
start_hour_of(t) ==
    LET i == CHOOSE i \in 1..Len(t) : time_at(t, i) /\ \A j \in 1..(i - 1) : ~time_at(t, j)
        a == skip_spaces(t, i + 1)
    IN  int_of_str(SubSeq(t, a, a + 1))

\* time_slots[slot_number] = start_hour
slot_set(slots, slot_number, start_hour) ==
    [n \in DOMAIN slots \cup {slot_number} |->
        IF n = slot_number THEN start_hour ELSE slots[n]]

\* Mutant of pair_loop: a pair that is no slot ends the scan of the row.
RECURSIVE pair_loop_stops(_, _, _)
pair_loop_stops(slots, cells, i) ==
    IF i >= Len(cells) \/ i + 1 >= Len(cells) THEN slots
    ELSE IF ~cells[i + 1].bold THEN slots
    ELSE IF ~slot_found(cells[i + 1].text) THEN slots
    ELSE IF ~time_found(cells[i + 2].text) THEN slots
    ELSE pair_loop_stops(slot_set(slots, slot_number_of(cells[i + 1].text),
                                  start_hour_of(cells[i + 2].text)),
                         cells, i + 2)

\* for i in range(0, len(cells), 2), i being zero-based
RECURSIVE pair_loop(_, _, _)
pair_loop(slots, cells, i) ==
    IF i >= Len(cells) \/ i + 1 >= Len(cells) THEN slots
    ELSE IF ~cells[i + 1].bold THEN pair_loop(slots, cells, i + 2)
    ELSE IF ~slot_found(cells[i + 1].text) THEN pair_loop(slots, cells, i + 2)
    ELSE IF ~time_found(cells[i + 2].text) THEN pair_loop(slots, cells, i + 2)
    ELSE pair_loop(slot_set(slots, slot_number_of(cells[i + 1].text),
                            start_hour_of(cells[i + 2].text)),
                   cells, i + 2)

RECURSIVE legend_rows(_, _, _)
legend_rows(slots, rows, k) ==
    IF k > Len(rows) THEN slots
    ELSE IF rows[k].colspan THEN legend_rows(slots, rows, k + 1)
    ELSE legend_rows(pair_loop(slots, rows[k].cells, 0), rows, k + 1)

parse_time_slots(legend) ==
    IF ~legend.present THEN <<>> ELSE legend_rows(<<>>, legend.rows, 1)

\* ------------------------------------------------------------------ scrape
\* One iteration of the loop over the departments, on a page [fetch,
\* error_div, soup]: the aggregated mapping after it, the legend parsed (the
\* one before when the page is left earlier), and whether an exception left
\* scrape.
scrape_page(aggregated, pg, slots_before, unscheduled_included) ==
    LET Leave(raised, agg, slots) == [raised |-> raised, aggregated |-> agg, time_slots |-> slots]
        parsed == parse_time_slots(pg.soup.legend)
        res == extract_course_data(pg.soup, unscheduled_included)
    IN  IF pg.fetch = "error" THEN Leave(FALSE, aggregated, slots_before)
        ELSE IF pg.fetch = "empty" THEN Leave(FALSE, aggregated, slots_before)
        ELSE IF pg.error_div THEN Leave(FALSE, aggregated, slots_before)
        ELSE IF DOMAIN parsed = {} THEN Leave(FALSE, aggregated, parsed)
        ELSE IF res.raised THEN Leave(TRUE, aggregated, parsed)
        ELSE IF res.courses # <<>>
        THEN Leave(FALSE, DictUpdate(aggregated, res.courses), parsed)
        ELSE Leave(FALSE, aggregated, parsed)

\* ------------------------------------------------------------------ state
VARIABLES
    soup,                 \* the page: [table, rows]
    time_slots,           \* the slot legend passed to extract_course_data
    include_unscheduled,  \* self.include_unscheduled
    pos,                  \* the for loop's position among the data rows
    courses,              \* the mapping being built
    decoded,              \* days, hours, rooms of the iteration, as decoded
    course_obj,           \* course_obj of the iteration, reconciled
    pc,                   \* where the call stands
    pages,                \* scrape: what each department's request gives
    page,                 \* scrape: the department the loop is at
    aggregated_courses,   \* scrape: the mapping aggregated so far
    earlier               \* what an earlier call of extract_course_data returned

vars == <<soup, time_slots, include_unscheduled, pos, courses, decoded, course_obj, pc,
          pages, page, aggregated_courses, earlier>>

scrape_vars == <<pages, page, aggregated_courses>>

\* ----------------------------------------------------------------- inputs
TextCell(t) == [text |-> t, font |-> <<>>, spans |-> <<>>]
CodeCell(t) == [text |-> t, font |-> <<t>>, spans |-> <<>>]
RECURSIVE concat(_)
concat(xs) == IF xs = <<>> THEN <<>> ELSE Head(xs) \o concat(Tail(xs))
SpanCell(spans) == [text |-> concat(spans), font |-> <<>>, spans |-> spans]

HeaderLabels == <<"Code.Sec", "Name", "Cr.", "Ects", "Instr.", "Days", "Hours", "Rooms">>

HeaderRow ==
    [class |-> <<"schtitle">>,
     cells |-> [i \in 1..Len(HeaderLabels) |->
                  [text |-> HeaderLabels[i], font |-> <<>>, spans |-> <<>>]]]

DataRow(cls, code_cell, name, cr, ects, instr, days, hours, rooms_cell) ==
    [class |-> <<cls>>,
     cells |-> <<code_cell, TextCell(name), TextCell(cr), TextCell(ects), TextCell(instr),
                 TextCell(days), TextCell(hours), rooms_cell>>]

\* Two primary rows of one key ("a 1" and "A1"), an unscheduled primary row,
\* three continuation rows (one with a code of its own), a short row, a row without a code element, a row
\* whose Hours cell holds a non-decimal digit, and a row that is no data row.
RowA == DataRow("schtd", CodeCell(<<"a", " ", "1">>), <<"X">>, <<"3">>, <<"6">>, <<"I">>,
                <<"M">>, <<"1", "2">>, SpanCell(<<(<<"R">>)>>))
RowA2 == DataRow("schtd2", CodeCell(<<"A", "1">>), <<"Y">>, <<"4">>, <<"7", ",", "5">>, <<"J">>,
                 <<"T", "T", "h">>, <<"3">>, TextCell(<<>>))
RowB == DataRow("schtd", CodeCell(<<"B", "1">>), <<"Z">>, <<>>, <<"x">>, <<>>,
                <<>>, <<>>, TextCell(<<>>))
RowLab == DataRow("schtd2", CodeCell(<<>>), <<"L", "A", "B">>, <<>>, <<>>, <<"K">>,
                  <<"W">>, <<"5">>, TextCell(<<"R", ",", "Q">>))
RowPs == DataRow("schtd", CodeCell(<<>>), <<"P", "S">>, <<>>, <<>>, <<>>,
                 <<>>, <<>>, TextCell(<<>>))
RowRec == DataRow("schtd2", CodeCell(<<"E", "1">>), <<"R", "E", "C", " ", "2">>, <<>>, <<>>, <<>>,
                  <<"F">>, <<>>, TextCell(<<>>))
RowShort == [class |-> <<"schtd">>, cells |-> <<CodeCell(<<"C", "1">>), TextCell(<<"X">>)>>]
RowNoFont == DataRow("schtd", TextCell(<<"C", "1">>), <<"X">>, <<"3">>, <<"6">>, <<"I">>,
                     <<"M">>, <<"1">>, TextCell(<<"R">>))
RowBadHours == DataRow("schtd", CodeCell(<<"D", "1">>), <<"X">>, <<"3">>, <<"6">>, <<"I">>,
                       <<"M">>, <<"1", "sup2">>, TextCell(<<"R">>))
RowOther == [class |-> <<>>, cells |-> <<TextCell(<<>>)>>]

RowSet == {RowA, RowA2, RowB, RowLab, RowPs, RowRec, RowShort, RowNoFont, RowBadHours, RowOther}

SeqsUpTo(S, n) == UNION {[1..k -> S] : k \in 0..n}

EmptyLegend == <<>>
FullLegend == [s \in 1..8 |-> s + 8]
Legends == {EmptyLegend, FullLegend}

\* ------------------------------------------------------------------ actions
\* Lines 135-144: the table and the header row are looked up.
Locate ==
    /\ pc = "start"
    /\ pc' = IF ~soup.table THEN "returned"
             ELSE IF ~has_header_row(soup.rows) THEN "raised"
             ELSE "loop"
    /\ UNCHANGED <<soup, time_slots, include_unscheduled, pos, courses, decoded, course_obj,
                   scrape_vars, earlier>>

\* Lines 147-361: one iteration of the for loop.
ForRow ==
    /\ pc = "loop"
    /\ pos <= Len(data_row_positions(soup.rows, 1))
    /\ LET res == loop_body(courses, soup.rows, data_row_positions(soup.rows, 1)[pos],
                            include_unscheduled)
       IN  /\ courses' = res.out.courses
           /\ decoded' = res.decoded
           /\ course_obj' = res.course_obj
           /\ pc' = IF res.out.raised THEN "raised" ELSE "loop"
    /\ pos' = pos + 1
    /\ UNCHANGED <<soup, time_slots, include_unscheduled, scrape_vars, earlier>>

\* Line 363: return courses.
Return ==
    /\ pc = "loop"
    /\ pos > Len(data_row_positions(soup.rows, 1))
    /\ pc' = "returned"
    /\ UNCHANGED <<soup, time_slots, include_unscheduled, pos, courses, decoded, course_obj,
                   scrape_vars, earlier>>

Next == Locate \/ ForRow \/ Return

\* extract_course_data on a page of up to MaxRows rows after the header row.
Init ==
    /\ \E table \in BOOLEAN, header \in BOOLEAN, body \in SeqsUpTo(RowSet, MaxRows) :
         soup = [table |-> table,
                 rows |-> IF ~table THEN <<>>
                          ELSE IF header THEN <<HeaderRow>> \o body ELSE body]
    /\ time_slots \in Legends
    /\ include_unscheduled \in BOOLEAN
    /\ pos = 1
    /\ courses = <<>>
    /\ decoded = <<>>
    /\ course_obj = <<>>
    /\ pc = "start"
    /\ pages = <<>>
    /\ page = 1
    /\ aggregated_courses = <<>>
    /\ earlier = <<>>

Spec == Init /\ [][Next]_vars

\* ------------------------------------------- one primary row, cells drawn
DayChars == {"T", "h", "S", "t", "M"}
HourChars == {"0", "1", "8", "9", "x", "sup2"}
RoomChars == {"R", ",", "|", " "}

\* Cells of each length up to MaxText, with distinct elements.
DayRep(k) == [i \in 1..k |-> <<"M", "T", "W", "F">>[((i - 1) % 4) + 1]]
HourRep(k) == [i \in 1..k |-> str_of_int(((i - 1) % 8) + 1)[1]]
RoomRep(k) == SpanCell([i \in 1..k |-> <<"R", str_of_int(i % 10)[1]>>])

Lengths == 0..MaxText

PrimaryRow(days, hours, rooms_cell) ==
    DataRow("schtd", CodeCell(<<"A", "1">>), <<"X">>, <<"3">>, <<"6">>, <<"I">>,
            days, hours, rooms_cell)

\* extract_course_data on a page of one primary row: one of its Days, Hours
\* and Rooms cells is any text up to MaxText characters, the other two are of
\* every length up to MaxText.
InitCells ==
    /\ \/ \E d \in SeqsUpTo(DayChars, MaxText), h \in Lengths, r \in Lengths :
            /\ soup = [table |-> TRUE,
                       rows |-> <<HeaderRow, PrimaryRow(d, HourRep(h), RoomRep(r))>>]
            /\ time_slots = FullLegend
       \/ \E d \in Lengths, h \in SeqsUpTo(HourChars, MaxText), r \in Lengths :
            /\ soup = [table |-> TRUE,
                       rows |-> <<HeaderRow, PrimaryRow(DayRep(d), h, RoomRep(r))>>]
            /\ time_slots \in Legends
       \/ \E d \in Lengths, h \in Lengths, r \in SeqsUpTo(RoomChars, MaxText) :
            /\ soup = [table |-> TRUE,
                       rows |-> <<HeaderRow, PrimaryRow(DayRep(d), HourRep(h), TextCell(r))>>]
            /\ time_slots = FullLegend
    /\ include_unscheduled \in BOOLEAN
    /\ pos = 1
    /\ courses = <<>>
    /\ decoded = <<>>
    /\ course_obj = <<>>
    /\ pc = "start"
    /\ pages = <<>>
    /\ page = 1
    /\ aggregated_courses = <<>>
    /\ earlier = <<>>

SpecCells == InitCells /\ [][Next]_vars

\* ------------------------------------------------------- the scrape loop
LegendCell(bold, t) == [bold |-> bold, text |-> t]

SlotLabel(n) == <<"S", "l", "o", "t", " ">> \o str_of_int(n)
TimeRange(h) ==
    <<":", " ">> \o (IF h < 10 THEN <<"0">> ELSE <<>>) \o str_of_int(h)
        \o <<":", "0", "0", " ", "-", " ">>
        \o (IF h < 10 THEN <<"0">> ELSE <<>>) \o str_of_int(h) \o <<":", "5", "0">>

\* A caption row and a row of two slots, 1 at 09:00 and 2 at 10:00.
LegendTable ==
    [present |-> TRUE,
     rows |-> <<[colspan |-> TRUE, cells |-> <<>>],
                [colspan |-> FALSE,
                 cells |-> <<LegendCell(TRUE, SlotLabel(1)), LegendCell(FALSE, TimeRange(9)),
                             LegendCell(TRUE, SlotLabel(2)), LegendCell(FALSE, TimeRange(10))>>]>>]
\* A legend table in which no pair of cells is a slot.
LegendUnreadable ==
    [present |-> TRUE,
     rows |-> <<[colspan |-> FALSE,
                 cells |-> <<LegendCell(FALSE, SlotLabel(1)), LegendCell(FALSE, TimeRange(9)),
                             LegendCell(TRUE, SlotLabel(2))>>]>>]
LegendAbsent == [present |-> FALSE, rows |-> <<>>]

Page(fetch, error_div, legend, table, rows) ==
    [fetch |-> fetch, error_div |-> error_div,
     soup |-> [table |-> table, rows |-> rows, legend |-> legend]]

PageSet ==
    {Page("ok", FALSE, LegendTable, TRUE, <<HeaderRow, RowA, RowLab>>),
     Page("ok", FALSE, LegendTable, TRUE, <<HeaderRow, RowA2, RowB>>),
     Page("ok", FALSE, LegendAbsent, TRUE, <<HeaderRow, RowA2>>),
     Page("ok", FALSE, LegendUnreadable, TRUE, <<HeaderRow, RowA>>),
     Page("ok", FALSE, LegendTable, TRUE, <<HeaderRow, RowShort, RowNoFont, RowB>>),
     Page("ok", FALSE, LegendTable, TRUE, <<HeaderRow, RowBadHours>>),
     Page("ok", FALSE, LegendTable, TRUE, <<RowA>>),
     Page("ok", FALSE, LegendTable, FALSE, <<>>),
     Page("ok", TRUE, LegendTable, TRUE, <<HeaderRow, RowA>>),
     Page("error", FALSE, LegendAbsent, FALSE, <<>>),
     Page("empty", FALSE, LegendAbsent, FALSE, <<>>)}

\* Lines 375-408: one department.
ScrapePage ==
    /\ pc = "scrape"
    /\ page <= Len(pages)
    /\ LET res == scrape_page(aggregated_courses, pages[page], time_slots, include_unscheduled)
       IN  /\ aggregated_courses' = res.aggregated
           /\ time_slots' = res.time_slots
           /\ pc' = IF res.raised THEN "scrape_raised" ELSE "scrape"
    /\ page' = page + 1
    /\ UNCHANGED <<soup, include_unscheduled, pos, courses, decoded, course_obj, pages, earlier>>

\* Lines 410-415: return aggregated_courses.
ScrapeReturn ==
    /\ pc = "scrape"
    /\ page > Len(pages)
    /\ pc' = "scrape_returned"
    /\ UNCHANGED <<soup, time_slots, include_unscheduled, pos, courses, decoded, course_obj,
                   scrape_vars, earlier>>

NextScrape == ScrapePage \/ ScrapeReturn

\* scrape over a catalog of up to MaxPages departments.
InitScrape ==
    /\ pages \in SeqsUpTo(PageSet, MaxPages)
    /\ page = 1
    /\ aggregated_courses = <<>>
    /\ include_unscheduled \in BOOLEAN
    /\ time_slots = <<>>
    /\ soup = [table |-> FALSE, rows |-> <<>>]
    /\ pos = 1
    /\ courses = <<>>
    /\ decoded = <<>>
    /\ course_obj = <<>>
    /\ pc = "scrape"
    /\ earlier = <<>>

SpecScrape == InitScrape /\ [][NextScrape]_vars

\* ------------------------------------------------------ the legend parsed
\* The cells a legend row is made of: two slot labels in bold, a slot label
\* that is not bold, a bold cell that names no slot, and two time ranges.
LegendCellSet ==
    {LegendCell(TRUE, SlotLabel(1)), LegendCell(TRUE, SlotLabel(2)),
     LegendCell(FALSE, SlotLabel(1)), LegendCell(TRUE, <<"x">>),
     LegendCell(FALSE, TimeRange(9)), LegendCell(FALSE, TimeRange(10))}

\* The rows that may follow the first one: a row with a trailing cell, and a
\* row that gives slot 1 another hour.
LaterRows ==
    {<<>>,
     <<[colspan |-> FALSE,
        cells |-> <<LegendCell(TRUE, SlotLabel(1)), LegendCell(FALSE, TimeRange(9)),
                    LegendCell(TRUE, SlotLabel(2))>>]>>,
     <<[colspan |-> FALSE,
        cells |-> <<LegendCell(TRUE, SlotLabel(1)), LegendCell(FALSE, TimeRange(10))>>]>>}

\* Line 396 (utils.py 34-106): the legend of the page is parsed.
ParseLegend ==
    /\ pc = "legend"
    /\ time_slots' = parse_time_slots(soup.legend)
    /\ pc' = "legend_parsed"
    /\ UNCHANGED <<soup, include_unscheduled, pos, courses, decoded, course_obj, scrape_vars,
                   earlier>>

NextLegend == ParseLegend

\* parse_time_slots on a legend whose first row holds up to MaxCells cells,
\* with or without a column-spanning cell.
InitLegend ==
    /\ \E colspan \in BOOLEAN, cells \in SeqsUpTo(LegendCellSet, MaxCells), later \in LaterRows :
         soup = [table |-> FALSE, rows |-> <<>>,
                 legend |-> [present |-> TRUE,
                             rows |-> <<[colspan |-> colspan, cells |-> cells]>> \o later]]
    /\ time_slots = <<>>
    /\ include_unscheduled = FALSE
    /\ pos = 1
    /\ courses = <<>>
    /\ decoded = <<>>
    /\ course_obj = <<>>
    /\ pc = "legend"
    /\ pages = <<>>
    /\ page = 1
    /\ aggregated_courses = <<>>
    /\ earlier = <<>>

SpecLegend == InitLegend /\ [][NextLegend]_vars

\* ------------------------------------------------- the call made again
\* Mutant of first_position: the iteration goes on where the earlier one ended.
first_position_resumed(left_at) == left_at

\* Line 147: find_all gives a new list, the for loop starts at its first row
\* wherever an earlier loop ended.
first_position(left_at) == 1

\* extract_course_data is called a second time on the same object with the
\* same soup and legend: courses = {} (line 135), what the first call
\* returned being kept by the caller.
CallAgain ==
    /\ pc = "returned"
    /\ earlier = <<>>
    /\ earlier' = <<courses>>
    /\ courses' = <<>>
    /\ pos' = first_position(pos)
    /\ decoded' = <<>>
    /\ course_obj' = <<>>
    /\ pc' = "start"
    /\ UNCHANGED <<soup, time_slots, include_unscheduled, scrape_vars>>

NextTwice == Locate \/ ForRow \/ Return \/ CallAgain

SpecTwice == Init /\ [][NextTwice]_vars

\* ================================================================== claims
\* What the claims speak of, said without the operators of the loop body.
Fields == {"days", "hours", "rooms"}

Returned == pc = "returned"

Headers == headers_of(soup.rows)

\* A row the for loop turns into a course record unless the filter or an
\* earlier row of the same key drops it: a data row with all its cells, a
\* code element and a Name that is no session name.
PrimaryRows ==
    {r \in 1..Len(soup.rows) :
        /\ is_data_row(soup.rows[r])
        /\ Len(soup.rows[r].cells) >= Len(Headers)
        /\ soup.rows[r].cells[1].font # <<>>
        /\ ~session_match(strip(soup.rows[r].cells[2].text))}

KeyOfRow(r) == normalize_course_code(soup.rows[r].cells[1].font[1])

RecordOfRow(r) == course_obj_of(soup.rows[r].cells, Headers)

HasSchedule(r) == \E f \in Fields : decoded_of(soup.rows[r].cells, Headers)[f] # <<>>

\* The primary rows that pass the unscheduled filter.
KeptRows == {r \in PrimaryRows : include_unscheduled \/ HasSchedule(r)}

FirstKept(k) ==
    CHOOSE r \in KeptRows : KeyOfRow(r) = k /\ \A q \in KeptRows : KeyOfRow(q) = k => r <= q

\* The cells of the row the last iteration visited.
VisitedCells == soup.rows[data_row_positions(soup.rows, 1)[pos - 1]].cells

\* C1 as stated: in every record of the returned mapping days, hours and rooms
\* are all empty or all of one length.
C1_AllEmptyOrAllEqual ==
    Returned =>
        \A i \in 1..Len(courses) :
            LET o == courses[i].val
            IN  \/ o.days = <<>> /\ o.hours = <<>> /\ o.rooms = <<>>
                \/ Len(o.days) = Len(o.hours) /\ Len(o.hours) = Len(o.rooms) /\ o.days # <<>>

\* C1 amended: in every record of the returned mapping the sequences among
\* days, hours and rooms that are not empty all have the same length.
C1_NonEmptyEqualLength ==
    Returned =>
        \A i \in 1..Len(courses) :
            \A f \in Fields, g \in Fields :
                LET o == courses[i].val
                IN  o[f] # <<>> /\ o[g] # <<>> => Len(o[f]) = Len(o[g])

\* A returned record with a padded sequence beside an empty one.
C1_Witness ==
    /\ Returned
    /\ \E i \in 1..Len(courses) :
         /\ courses[i].val.rooms = <<>>
         /\ Len(courses[i].val.days) = 2
         /\ courses[i].val.hours = <<3, 3>>

\* C2: reconciliation.  Each decoded sequence that is not empty ends with the
\* length of the longest of the three, keeps its elements as a prefix and is
\* continued with its own last element; an empty one stays empty; the record
\* stored is the reconciled one.
C2_Reconciliation ==
    /\ decoded # <<>> /\ course_obj # <<>> =>
         LET d == decoded[1]
             o == course_obj[1]
             longest == CHOOSE n \in {Len(d[f]) : f \in Fields} :
                            \A f \in Fields : Len(d[f]) <= n
         IN  \A f \in Fields :
                 /\ d[f] = <<>> => o[f] = <<>>
                 /\ d[f] # <<>> =>
                      /\ Len(o[f]) = longest
                      /\ \A i \in 1..Len(d[f]) : o[f][i] = d[f][i]
                      /\ \A i \in (Len(d[f]) + 1)..longest : o[f][i] = d[f][Len(d[f])]
    /\ Returned /\ courses # <<>> => course_obj # <<>> /\ courses[1].val = course_obj[1]

\* The example of the specification: one day, two hours, no room.
C2_Witness ==
    /\ Returned
    /\ decoded = <<[days |-> <<(<<"M">>)>>, hours |-> <<1, 2>>, rooms |-> <<>>]>>
    /\ courses # <<>>
    /\ courses[1].val.days = <<(<<"M">>), (<<"M">>)>>
    /\ courses[1].val.hours = <<1, 2>>
    /\ courses[1].val.rooms = <<>>

\* The session keys a continuation row is to get: the row at j follows the
\* primary row at r through continuation data rows only.
ContinuationRow(j) ==
    /\ is_data_row(soup.rows[j])
    /\ Len(soup.rows[j].cells) >= Len(Headers)
    /\ session_match(strip(soup.rows[j].cells[2].text))

FollowsPrimary(r, j) == r < j /\ \A q \in (r + 1)..j : ContinuationRow(q)

SessionTypeOfName(name) ==
    IF IsPrefix(<<"L", "A", "B">>, name) \/ IsPrefix(<<"R", "E", "C">>, name)
    THEN <<"L", "A", "B">>
    ELSE <<"P", ".", "S", ".">>

SessionKey(r, j) ==
    KeyOfRow(r) \o <<" ">> \o SessionTypeOfName(strip(soup.rows[j].cells[2].text))
        \o <<" ">> \o str_of_int(j - r)

\* The primary rows whose record is the one stored under their key.
EmittedRows == {r \in KeptRows : r = FirstKept(KeyOfRow(r))}

\* C3: every continuation row that follows an emitted primary row, directly or
\* through continuation rows, has its session record in the returned mapping,
\* under '<parent-key> <session-type> <sequence-number>', with credits 0,
\* ECTS 0.0 and the instructor of the parent.
C3_SessionRecords ==
    Returned =>
        \A r \in EmittedRows : \A j \in 1..Len(soup.rows) :
            FollowsPrimary(r, j) =>
                /\ DictHas(courses, SessionKey(r, j))
                /\ DictGet(courses, SessionKey(r, j)).credits = 0
                /\ DictGet(courses, SessionKey(r, j)).ects = 0
                /\ DictGet(courses, SessionKey(r, j)).instructor = soup.rows[r].cells[5].text

C5_StoredNeverChanged ==
    [][\A k \in DictKeys(courses) :
          DictHas(courses', k) /\ DictGet(courses', k) = DictGet(courses, k)]_vars

\* A primary row of a key already stored has been processed, and a
\* continuation row follows it.
C5_Witness ==
    /\ pc = "loop"
    /\ course_obj # <<>>
    /\ DictHas(courses, normalize_course_code(course_obj[1].code))
    /\ DictGet(courses, normalize_course_code(course_obj[1].code)) # course_obj[1]
    /\ pos <= Len(data_row_positions(soup.rows, 1))
    /\ ContinuationRow(data_row_positions(soup.rows, 1)[pos])

\* C6: an unscheduled primary row gives no record when include_unscheduled is
\* false and a record of three empty sequences when it is true; a primary row
\* with a schedule gives a record under both settings.
C6_UnscheduledFilter ==
    Returned =>
        \A r \in PrimaryRows :
            /\ ~HasSchedule(r) /\ ~include_unscheduled =>
                 \/ ~DictHas(courses, KeyOfRow(r))
                 \/ DictGet(courses, KeyOfRow(r)) # RecordOfRow(r)
            /\ ~HasSchedule(r) /\ include_unscheduled =>
                 /\ DictHas(courses, KeyOfRow(r))
                 /\ r = FirstKept(KeyOfRow(r)) =>
                      \A f \in Fields : DictGet(courses, KeyOfRow(r))[f] = <<>>
            /\ HasSchedule(r) => DictHas(courses, KeyOfRow(r))

\* An unscheduled primary row was dropped beside a scheduled one that was kept.
C6_Witness ==
    /\ Returned
    /\ ~include_unscheduled
    /\ \E r \in PrimaryRows : ~HasSchedule(r) /\ ~DictHas(courses, KeyOfRow(r))
    /\ \E r \in PrimaryRows : HasSchedule(r) /\ DictHas(courses, KeyOfRow(r))

\* The slot digits of an Hours cell text, as the claims describe them: the
\* characters 1 to 8, in their order, as integers.
SlotChars == {"1", "2", "3", "4", "5", "6", "7", "8"}

SlotPositions(t) == {i \in 1..Len(t) : t[i] \in SlotChars}

ExpectedSlots(t) ==
    [k \in 1..Cardinality(SlotPositions(t)) |->
        int_value(t[CHOOSE i \in SlotPositions(t) :
                        Cardinality({j \in SlotPositions(t) : j <= i}) = k])]

\* C7: with a legend the hours of a record are legend start hours of slot
\* digits of the Hours cell, without one they are the slot digits.
C7_HoursResolved ==
    Returned =>
        \A r \in EmittedRows :
            LET hours == DictGet(courses, KeyOfRow(r)).hours
                slots == ExpectedSlots(soup.rows[r].cells[7].text)
            IN  IF DOMAIN time_slots # {}
                THEN \A i \in 1..Len(hours) :
                        \E k \in 1..Len(slots) :
                            slots[k] \in DOMAIN time_slots /\ hours[i] = time_slots[slots[k]]
                ELSE \A i \in 1..Len(hours) : \E k \in 1..Len(slots) : hours[i] = slots[k]

\* C9: whatever the text of the Hours cell, the iteration decodes it to the
\* characters 1 to 8 of the text, as integers, in their order and with
\* repeats; every other character adds nothing.
C9_HoursDecoded ==
    pos > 1 /\ PrimaryRows # {} =>
        /\ pc # "raised"
        /\ decoded # <<>>
        /\ decoded[1].hours = ExpectedSlots(VisitedCells[7].text)

\* The same for the texts in which every character str.isdigit accepts is a
\* decimal digit.
C9_DecimalTexts ==
    pos > 1 /\ PrimaryRows # {} /\ (\A i \in 1..Len(VisitedCells[7].text) :
                   VisitedCells[7].text[i] # "sup2") =>
        /\ pc # "raised"
        /\ decoded # <<>>
        /\ decoded[1].hours = ExpectedSlots(VisitedCells[7].text)

\* The day tokens of a Days cell text, as the claim describes them: a token
\* starts wherever a two-letter token or else a one-letter token is written.
TwoAt(t, i) == i < Len(t) /\ <<t[i], t[i + 1]>> \in {<<"T", "h">>, <<"S", "t">>, <<"S", "u">>}

DayPositions(t) == {i \in 1..Len(t) : TwoAt(t, i) \/ t[i] \in {"M", "T", "W", "F"}}

ExpectedDays(t) ==
    [k \in 1..Cardinality(DayPositions(t)) |->
        LET i == CHOOSE i \in DayPositions(t) :
                    Cardinality({j \in DayPositions(t) : j <= i}) = k
        IN  IF TwoAt(t, i) THEN <<t[i], t[i + 1]>> ELSE <<t[i]>>]

\* C10: the days decoded are the tokens of the Days cell text from left to
\* right, a two-letter token before a one-letter one, repeats kept, other
\* characters skipped.
C10_DaysDecoded ==
    decoded # <<>> =>
        LET t == VisitedCells[6].text
            days == decoded[1].days
        IN  /\ days = ExpectedDays(t)
            /\ t = <<"M", "M", "M">> => days = <<(<<"M">>), (<<"M">>), (<<"M">>)>>
            /\ t = <<"T", "h", "M">> => days = <<(<<"T", "h">>), (<<"M">>)>>
            /\ t = <<"T", "T", "h">> => days = <<(<<"T">>), (<<"T", "h">>)>>

\* "TTh" has been decoded.
C10_Witness ==
    /\ decoded # <<>>
    /\ VisitedCells[6].text = <<"T", "T", "h">>
    /\ decoded[1].days = <<(<<"T">>), (<<"T", "h">>)>>

\* C8: a page whose legend is empty still has its schedule extracted, and its
\* records are in the mapping scrape returns.
C8_EmptyLegendNotFatal ==
    pc = "scrape_returned" =>
        \A p \in 1..Len(pages) :
            /\ pages[p].fetch = "ok"
            /\ ~pages[p].error_div
            /\ DOMAIN parse_time_slots(pages[p].soup.legend) = {}
            => \A k \in DictKeys(extract_course_data(pages[p].soup, include_unscheduled).courses) :
                   DictHas(aggregated_courses, k)

IsSuffix(p, t) == Len(p) <= Len(t) /\ SubSeq(t, Len(t) - Len(p) + 1, Len(t)) = p

\* C11: the continuation rows that follow an emitted primary row are numbered
\* 1, 2, 3, ... in document order whatever their session type, from 1 again
\* after each primary row: the j-th of them has a record whose key starts with
\* the key of the primary row and ends with the number j.
C11_SequenceNumbers ==
    Returned =>
        \A r \in EmittedRows : \A j \in 1..Len(soup.rows) :
            FollowsPrimary(r, j) =>
                \E i \in 1..Len(courses) :
                    /\ IsPrefix(KeyOfRow(r) \o <<" ">>, courses[i].key)
                    /\ IsSuffix(<<" ">> \o str_of_int(j - r), courses[i].key)
                    /\ IsSuffix(<<" ">> \o str_of_int(j - r), courses[i].val.code)

\* C12: a page without a schedule table, or with the table but without a
\* header row, never ends the call with an exception; the call returns, and
\* what it returns is the empty mapping.
C12_StructuralNeverRaises ==
    ~soup.table \/ ~has_header_row(soup.rows) =>
        /\ pc # "raised"
        /\ Returned => courses = <<>>

LowerCaseLetters ==
    {"a", "b", "c", "d", "e", "f", "g", "h", "i", "j", "k", "l", "m",
     "n", "o", "p", "q", "r", "s", "t", "u", "v", "w", "x", "y", "z"}

\* C13: no key of the returned mapping holds a space or a lower-case letter.
C13_KeysNormalized ==
    Returned =>
        \A i \in 1..Len(courses) : \A n \in 1..Len(courses[i].key) :
            /\ courses[i].key[n] # " "
            /\ courses[i].key[n] \notin LowerCaseLetters

\* A primary row whose code is written with a space and a lower-case letter
\* has its record in the returned mapping, and a continuation row follows it.
C13_Witness ==
    /\ Returned
    /\ \E r \in EmittedRows :
         /\ \E n \in 1..Len(soup.rows[r].cells[1].font[1]) :
                soup.rows[r].cells[1].font[1][n] = " "
         /\ \E n \in 1..Len(soup.rows[r].cells[1].font[1]) :
                soup.rows[r].cells[1].font[1][n] \in LowerCaseLetters
         /\ \E i \in 1..Len(courses) : courses[i].val.code = soup.rows[r].cells[1].font[1]
         /\ r < Len(soup.rows) /\ ContinuationRow(r + 1)

\* C14: the keys of the returned mapping stand in the document order of the
\* rows that gave their records: every key is that of a primary row that was
\* kept, and of two keys the earlier one comes from the earlier row.
C14_DocumentOrder ==
    Returned =>
        /\ \A i \in 1..Len(courses) : \E r \in KeptRows : KeyOfRow(r) = courses[i].key
        /\ \A i \in 1..Len(courses) : \A j \in (i + 1)..Len(courses) :
               FirstKept(courses[i].key) < FirstKept(courses[j].key)

\* Two records whose keys are returned in document order against their
\* alphabetical order, with a continuation row between their rows.
C14_Witness ==
    /\ Returned
    /\ Len(courses) = 2
    /\ courses[1].key = <<"B", "1">>
    /\ courses[2].key = <<"A", "1">>
    /\ \E j \in 1..Len(soup.rows) :
         /\ ContinuationRow(j)
         /\ FirstKept(courses[1].key) < j
         /\ j < FirstKept(courses[2].key)

TablelessPage(pg) == pg.fetch = "ok" /\ ~pg.error_div /\ ~pg.soup.table

\* C16: for a page without a schedule table extract_course_data returns the
\* empty mapping, and the step of scrape on that page keeps the aggregated
\* mapping as it was and goes on to the next page.
C16_MissingTablePageLevel ==
    [][pc = "scrape" /\ page <= Len(pages) /\ TablelessPage(pages[page]) =>
          /\ ~extract_course_data(pages[page].soup, include_unscheduled).raised
          /\ extract_course_data(pages[page].soup, include_unscheduled).courses = <<>>
          /\ aggregated_courses' = aggregated_courses
          /\ pc' = "scrape"
          /\ page' = page + 1]_vars

\* scrape returned after a page with records, a page with a legend and no
\* schedule table, and another page with records: the records of the first
\* and of the third page are in the mapping.
C16_Witness ==
    /\ pc = "scrape_returned"
    /\ Len(pages) = 3
    /\ TablelessPage(pages[2])
    /\ DOMAIN parse_time_slots(pages[2].soup.legend) # {}
    /\ DictHas(aggregated_courses, <<"A", "1">>)
    /\ DictHas(aggregated_courses, <<"B", "1">>)
    /\ pages[1].soup.rows = <<HeaderRow, RowA, RowLab>>
    /\ pages[3].soup.rows = <<HeaderRow, RowShort, RowNoFont, RowB>>

\* The names of continuation rows, as the claims describe them: LAB, P.S., PS
\* or REC, then spaces, then digits, and nothing else.
SessionNameTokens ==
    {<<"L", "A", "B">>, <<"P", ".", "S", ".">>, <<"P", "S">>, <<"R", "E", "C">>}

NamedAsSession(name) ==
    \E tok \in SessionNameTokens : \E k \in Len(tok)..Len(name) :
        /\ SubSeq(name, 1, Len(tok)) = tok
        /\ \A i \in (Len(tok) + 1)..k : name[i] = " "
        /\ \A i \in (k + 1)..Len(name) : name[i] \in DecimalDigits

\* The data rows with all their cells whose Name is a session name.
SessionRows ==
    {j \in 1..Len(soup.rows) :
        /\ is_data_row(soup.rows[j])
        /\ Len(soup.rows[j].cells) >= Len(Headers)
        /\ NamedAsSession(strip(soup.rows[j].cells[2].text))}

\* The record at i of the mapping is the row's own record.
OwnRecord(j, i) ==
    /\ soup.rows[j].cells[1].font # <<>>
    /\ courses[i].val.code = soup.rows[j].cells[1].font[1]
    /\ courses[i].val.name = soup.rows[j].cells[2].text

\* The record at i of the mapping was made from the row at j, as its own
\* record or as the session record of a primary row before it.
ContributesTo(j, i) ==
    \/ OwnRecord(j, i)
    \/ \E r \in 1..(j - 1) :
         /\ soup.rows[r].cells[1].font # <<>>
         /\ FollowsPrimary(r, j)
         /\ courses[i].key = SessionKey(r, j)

\* C17: a continuation row never has a record of its own in the returned
\* mapping, with or without a primary row before it, and at most one record
\* of the mapping was made from it.
C17_ContinuationNeverPrimary ==
    Returned =>
        \A j \in SessionRows :
            /\ \A i \in 1..Len(courses) : ~OwnRecord(j, i)
            /\ Cardinality({i \in 1..Len(courses) : ContributesTo(j, i)}) <= 1

\* A continuation row with a code of its own and a schedule stands first
\* among the data rows, a primary row after it gave a record, and nothing is
\* stored under the code of the continuation row.
C17_Witness ==
    /\ Returned
    /\ Len(soup.rows) >= 3
    /\ 2 \in SessionRows
    /\ soup.rows[2].cells[1].font = <<(<<"E", "1">>)>>
    /\ soup.rows[2].cells[6].text # <<>>
    /\ ~DictHas(courses, <<"E", "1">>)
    /\ courses # <<>>

\* The page of the header row and the row at r alone.
PageOfRowAlone(r) == [table |-> TRUE, rows |-> <<header_row_of(soup.rows), soup.rows[r]>>]

\* C18: the days, hours and rooms of a primary record are those of the record
\* the primary row gives on a page of its own, whatever rows follow it, and
\* hold nothing but what its own Days, Hours and Rooms cells decode to.
C18_SessionsNeverMerged ==
    Returned =>
        \A r \in EmittedRows :
            LET stored == DictGet(courses, KeyOfRow(r))
                alone == extract_course_data(PageOfRowAlone(r), TRUE).courses
                own_days == ExpectedDays(soup.rows[r].cells[6].text)
                own_hours == ExpectedSlots(soup.rows[r].cells[7].text)
                own_rooms == decode_rooms(soup.rows[r].cells[8])
            IN  /\ Len(alone) = 1
                /\ \A f \in Fields : stored[f] = alone[1].val[f]
                /\ \A n \in 1..Len(stored.days) : \E m \in 1..Len(own_days) :
                       stored.days[n] = own_days[m]
                /\ \A n \in 1..Len(stored.hours) : \E m \in 1..Len(own_hours) :
                       stored.hours[n] = own_hours[m]
                /\ \A n \in 1..Len(stored.rooms) : \E m \in 1..Len(own_rooms) :
                       stored.rooms[n] = own_rooms[m]

\* A primary row is followed by a continuation row with a day, an hour and
\* rooms of its own, and its record holds its own day, hours and room.
C18_Witness ==
    /\ Returned
    /\ \E r \in EmittedRows :
         /\ r < Len(soup.rows)
         /\ (r + 1) \in SessionRows
         /\ soup.rows[r + 1].cells[6].text = <<"W">>
         /\ soup.rows[r + 1].cells[7].text = <<"5">>
         /\ DictGet(courses, KeyOfRow(r)).days = <<(<<"M">>), (<<"M">>)>>
         /\ DictGet(courses, KeyOfRow(r)).hours = <<1, 2>>
         /\ DictGet(courses, KeyOfRow(r)).rooms = <<(<<"R">>), (<<"R">>)>>

\* The data rows with fewer cells than the header row.
ShortRows ==
    {j \in 1..Len(soup.rows) :
        is_data_row(soup.rows[j]) /\ Len(soup.rows[j].cells) < Len(Headers)}

\* The row the next iteration of the for loop visits.
RowAtLoop == data_row_positions(soup.rows, 1)[pos]

\* C19: the iteration on a data row with fewer cells than the header row leaves
\* the mapping as it is, raises nothing and hands over to the next row; in the
\* returned mapping there is no record of the row's own, and every primary
\* row kept after it has its record.
C19_ShortRowSkipped ==
    /\ [](Returned =>
            \A j \in ShortRows :
                /\ \A i \in 1..Len(courses) :
                       soup.rows[j].cells[1].font = <<>>
                           \/ courses[i].val.code # soup.rows[j].cells[1].font[1]
                /\ \A r \in KeptRows : j < r => DictHas(courses, KeyOfRow(r)))
    /\ [][pc = "loop" /\ pos <= Len(data_row_positions(soup.rows, 1)) /\ RowAtLoop \in ShortRows =>
            courses' = courses /\ pc' = "loop" /\ pos' = pos + 1]_vars

\* A short row with a code of its own was passed, nothing is stored under
\* its code, and a primary row after it has its record.
C19_Witness ==
    /\ Returned
    /\ \E j \in ShortRows :
         /\ soup.rows[j].cells[1].font = <<(<<"C", "1">>)>>
         /\ ~DictHas(courses, <<"C", "1">>)
         /\ \E r \in KeptRows : j < r /\ DictHas(courses, KeyOfRow(r))

\* No cell of the catalog holds a digit character that int() rejects: the
\* pages show no anomaly but a failed fetch, an error message, an empty legend,
\* a missing schedule table, a missing header row, or rows that are short or
\* lack the code element.
OnlyListedAnomalies ==
    \A p \in 1..Len(pages) : \A j \in 1..Len(pages[p].soup.rows) :
        is_data_row(pages[p].soup.rows[j]) =>
        \A c \in 1..Len(pages[p].soup.rows[j].cells) :
            \A n \in 1..Len(pages[p].soup.rows[j].cells[c].text) :
                pages[p].soup.rows[j].cells[c].text[n] # "sup2"

\* C20: over such a catalog no page ends scrape with an exception, and when
\* scrape returns every page has been visited.
C20_EveryPageVisited ==
    OnlyListedAnomalies =>
        /\ pc # "scrape_raised"
        /\ pc = "scrape_returned" => page = Len(pages) + 1

\* The pairs of a legend, as the claim describes them: <<k, i>> is the pair of
\* the cells at the zero-based positions i and i + 1 of the row k, i even, in
\* a row without a column-spanning cell.
LegendPairs ==
    {q \in (1..Len(soup.legend.rows)) \X (0..MaxCells) :
        /\ ~soup.legend.rows[q[1]].colspan
        /\ q[2] % 2 = 0
        /\ q[2] + 2 <= Len(soup.legend.rows[q[1]].cells)}

SlotCellOf(q) == soup.legend.rows[q[1]].cells[q[2] + 1]
TimeCellOf(q) == soup.legend.rows[q[1]].cells[q[2] + 2]

\* The pair names slot n at hour h: bold 'Slot n' beside ': hh:00 - hh:50'.
PairGives(q, n, h) ==
    /\ SlotCellOf(q).bold
    /\ SlotCellOf(q).text = SlotLabel(n)
    /\ TimeCellOf(q).text = TimeRange(h)

PairBefore(p, q) == p[1] < q[1] \/ (p[1] = q[1] /\ p[2] < q[2])

\* C21: the legend parsed holds the entry n -> h exactly when a pair of a
\* row without a column-spanning cell names slot n in bold beside a time
\* range, the hour being that of the last such pair; every other pair, a
\* trailing cell and a row with a column-spanning cell add nothing and stop
\* nothing.
C21_LegendPairs ==
    pc = "legend_parsed" =>
        /\ \A n \in 1..9 :
               n \in DOMAIN time_slots <=> \E q \in LegendPairs, h \in 0..23 : PairGives(q, n, h)
        /\ \A n \in DOMAIN time_slots :
               \E q \in LegendPairs :
                   /\ PairGives(q, n, time_slots[n])
                   /\ \A p \in LegendPairs, h \in 0..23 :
                          PairGives(p, n, h) => p = q \/ PairBefore(p, q)
        /\ DOMAIN time_slots \subseteq 1..9

\* A pair that is no slot stands before a pair that is one, and a later row
\* ends with a cell without a partner: both slots are in the legend parsed.
C21_Witness ==
    /\ pc = "legend_parsed"
    /\ Len(soup.legend.rows) = 2
    /\ ~soup.legend.rows[1].colspan
    /\ soup.legend.rows[1].cells =
           <<LegendCell(FALSE, SlotLabel(1)), LegendCell(FALSE, TimeRange(10)),
             LegendCell(TRUE, SlotLabel(2)), LegendCell(FALSE, TimeRange(10))>>
    /\ Len(soup.legend.rows[2].cells) = 3
    /\ DOMAIN time_slots = {1, 2}
    /\ time_slots[1] = 9
    /\ time_slots[2] = 10

\* The record at i of the mapping is the record of a primary row that was
\* kept.
PrimaryRecord(i) ==
    \E r \in KeptRows :
        /\ courses[i].key = KeyOfRow(r)
        /\ courses[i].val = RecordOfRow(FirstKept(KeyOfRow(r)))

\* The record at i of the mapping is the session record of the continuation
\* row at j, whose primary row was kept and is parted from it by continuation
\* rows only.
SessionRecordOf(j, i) ==
    \E r \in KeptRows : FollowsPrimary(r, j) /\ courses[i].key = SessionKey(r, j)

\* The data row with all its cells that is no continuation row and stands
\* nearest before the row at j, 0 when there is none.
NearestOwnRow(j) ==
    LET before == {r \in 1..(j - 1) :
                      /\ is_data_row(soup.rows[r])
                      /\ Len(soup.rows[r].cells) >= Len(Headers)
                      /\ r \notin SessionRows}
    IN  IF before = {} THEN 0 ELSE CHOOSE r \in before : \A q \in before : q <= r

\* C22: every record of the returned mapping is the record of a kept primary
\* row or the session record of a continuation row that follows a kept primary
\* row through continuation rows only; a continuation row whose nearest
\* primary row was dropped or skipped, or that stands behind a short row of
\* the lookahead, has no record at all.
C22_SessionOnlyAfterKeptPrimary ==
    Returned =>
        /\ \A i \in 1..Len(courses) :
               PrimaryRecord(i) \/ \E j \in SessionRows : SessionRecordOf(j, i)
        /\ \A j \in SessionRows :
               \/ NearestOwnRow(j) \in KeptRows /\ FollowsPrimary(NearestOwnRow(j), j)
               \/ \A i \in 1..Len(courses) :
                      /\ ~OwnRecord(j, i)
                      /\ \A r \in PrimaryRows : r < j => courses[i].key # SessionKey(r, j)
                      /\ \A r \in PrimaryRows, n \in 1..MaxRows :
                             r < j => courses[i].key #
                                 KeyOfRow(r) \o <<" ">>
                                     \o SessionTypeOfName(strip(soup.rows[j].cells[2].text))
                                     \o <<" ">> \o str_of_int(n)

\* A continuation row with a day of its own follows a primary row that the
\* unscheduled filter dropped, and the returned mapping holds the record of a
\* primary row that was kept and nothing else.
C22_Witness ==
    /\ Returned
    /\ ~include_unscheduled
    /\ \E j \in SessionRows :
         /\ NearestOwnRow(j) \in PrimaryRows \ KeptRows
         /\ NearestOwnRow(j) = j - 1
         /\ soup.rows[j].cells[6].text # <<>>
    /\ Len(courses) = 1
    /\ PrimaryRecord(1)

\* C23: a continuation row without a day, an hour or a room that follows an
\* emitted primary row through continuation rows has its session record in
\* the returned mapping, with three empty sequences, whatever the value of
\* include_unscheduled.
C23_FilterPrimaryOnly ==
    Returned =>
        \A r \in EmittedRows : \A j \in SessionRows :
            FollowsPrimary(r, j) /\ ~HasSchedule(j) =>
                \E i \in 1..Len(courses) :
                    /\ courses[i].key = SessionKey(r, j)
                    /\ \A f \in Fields : courses[i].val[f] = <<>>

\* The records the page at p hands to the aggregated mapping: those of its
\* schedule when it was fetched, shows no error message and has a legend,
\* none otherwise.
ProducedBy(p) ==
    IF /\ pages[p].fetch = "ok"
       /\ ~pages[p].error_div
       /\ DOMAIN parse_time_slots(pages[p].soup.legend) # {}
       /\ ~extract_course_data(pages[p].soup, include_unscheduled).raised
    THEN extract_course_data(pages[p].soup, include_unscheduled).courses
    ELSE <<>>

\* C24: the mapping scrape returns holds, under every key, the record of the
\* last page that produced the key, and no other key; the step on a page that
\* fails or produces no record leaves the aggregated mapping as it is.
C24_LastWriterWins ==
    /\ [](pc = "scrape_returned" =>
            /\ DictKeys(aggregated_courses) =
                   UNION {DictKeys(ProducedBy(p)) : p \in 1..Len(pages)}
            /\ \A p \in 1..Len(pages) : \A k \in DictKeys(ProducedBy(p)) :
                   (\A q \in (p + 1)..Len(pages) : k \notin DictKeys(ProducedBy(q)))
                       => DictGet(aggregated_courses, k) = DictGet(ProducedBy(p), k))
    /\ [][pc = "scrape" /\ page <= Len(pages) /\ ProducedBy(page) = <<>> =>
            aggregated_courses' = aggregated_courses]_vars

\* Two pages produced the key A1 with different records, a third page failed
\* to be fetched, and the mapping returned holds the record of the second.
C24_Witness ==
    /\ pc = "scrape_returned"
    /\ Len(pages) = 3
    /\ DictHas(ProducedBy(1), <<"A", "1">>)
    /\ DictHas(ProducedBy(2), <<"A", "1">>)
    /\ DictGet(ProducedBy(1), <<"A", "1">>) # DictGet(ProducedBy(2), <<"A", "1">>)
    /\ pages[3].fetch = "error"
    /\ DictGet(aggregated_courses, <<"A", "1">>) = DictGet(ProducedBy(2), <<"A", "1">>)

====
